---------------------------- MODULE Spec2Model ----------------------------
(***************************************************************************)
(* Model of the lambda-functions repository: the code generator Lambda,    *)
(* the authorizer Lambda, the DynamoDB code table they share, and the      *)
(* word dictionary codec.                                                  *)
(*                                                                         *)
(* Strings that the code only compares, stores or passes on are modelled   *)
(* as tagged records.  A digest (sha256 / HMAC-SHA256 / KMS signature) is  *)
(* modelled as a record of the inputs that determine it: two digests are   *)
(* equal exactly when their inputs are (the collision-free idealisation).  *)
(* A string that may contain ':' is a sequence of ':'-free segments.       *)
(***************************************************************************)
EXTENDS Integers, Sequences, FiniteSets, TLC

(***************************************************************************)
(* Bounds of the model.                                                    *)
(***************************************************************************)
\* number of generator invocations observed
NumGen == 2
\* number of distinct values secrets.token_urlsafe may return
NumNonces == 2
\* the clock reading (Unix seconds) at which the observation starts: 23:00 UTC of day 0
StartTime == 82800

\* the largest number of entries of ALLOWED_CONTENT_TYPES
MaxAllowed == 2

\* the instants at which the system is observed, as seconds after StartTime
ClockOffsets == {0, 3600, 3601, 10800}
\* how far the authorizer's clock may lag behind the generator's, in seconds
ClockSkews == {0, -1800}
\* values of the CODE_EXPIRY_MINUTES environment variable (60 is the default)
ExpiryChoices == {30, 60}

(***************************************************************************)
(* Python values.                                                          *)
(***************************************************************************)
NoneVal == "None"
\* Python truthiness of an Optional[str]
Truthy(v) == v \notin {NoneVal, ""}

\* os.environ: the generator's configuration (lines 27-31)
GenConfigs ==
    { [USE_KMS |-> FALSE, KMS_KEY_ID |-> NoneVal, HMAC_SECRET |-> "s1"],
      [USE_KMS |-> TRUE,  KMS_KEY_ID |-> "key1",  HMAC_SECRET |-> NoneVal],
      [USE_KMS |-> FALSE, KMS_KEY_ID |-> NoneVal, HMAC_SECRET |-> NoneVal],
      [USE_KMS |-> TRUE,  KMS_KEY_ID |-> NoneVal, HMAC_SECRET |-> NoneVal] }
\* os.environ: the authorizer's configuration (lines 27-30)
AuthConfigs ==
    GenConfigs \cup
    { [USE_KMS |-> FALSE, KMS_KEY_ID |-> NoneVal, HMAC_SECRET |-> "s2"] }

\* a ':'-free piece of text that is neither a code nor a signature
Text(s) == [kind |-> "text", text |-> s]

(***************************************************************************)
(* shared/utils.py                                                         *)
(***************************************************************************)
\* create_response: the body is kept as the dictionary json.dumps serialises
create_response(status_code, body) ==
    [statusCode |-> status_code,
     headers |-> [ContentType |-> "application/json", AccessControlAllowOrigin |-> "*"],
     body |-> body]

(***************************************************************************)
(* code_generator/lambda_function.py: pure helpers                         *)
(***************************************************************************)
Nonces == 1 .. NumNonces

\* hmac.new(secret, code, sha256).hexdigest(): determined by (secret, code)
HmacSha256Hex(secret, message) ==
    [kind |-> "sig", alg |-> "hmac", key |-> secret, msg |-> message, salt |-> 0]

sign_with_hmac(code, secret) == <<HmacSha256Hex(secret, code)>>

\* kms_client.sign with RSASSA_PSS_SHA_256: a randomised signature; salt is the
\* randomness of the call
KmsSignature(key_id, message, salt) ==
    [kind |-> "sig", alg |-> "kms", key |-> key_id, msg |-> message, salt |-> salt]

\* sha256(f"{nonce}:{timestamp}").hexdigest()[:32]
generate_code(nonce, timestamp) ==
    [kind |-> "code", nonce |-> nonce, timestamp |-> timestamp]

NoCode == [kind |-> "code", nonce |-> 0, timestamp |-> 0]
NoSignature == <<>>
NoResponse == [statusCode |-> 0]


(***************************************************************************)
(* code_generator/lambda_function.py: lambda_handler, one invocation.      *)
(* The handler is cut at its two remote calls (KMS sign, DynamoDB put) and  *)
(* at its second reading of the clock, so that concurrent invocations, the *)
(* clock and the TTL cleanup interleave there.                             *)
(***************************************************************************)
GenIdle ==
    [pc |-> "idle", nonce |-> 0, timestamp |-> 0, code |-> NoCode, expires_at |-> 0,
     signature |-> NoSignature, signing_method |-> NoneVal, created_at |-> 0,
     signCalls |-> 0, putCalls |-> 0, stored |-> FALSE, raised |-> NoneVal,
     response |-> NoResponse]

\* an error response of the handler: the configuration error of lines 162-167
GenFailure(g, status, message) ==
    [g EXCEPT !.pc = "done", !.response = create_response(status, [error |-> message])]

\* the response of the except clauses, lines 200-208, for the exception raised:
\* 'Failed to generate code' for ClientError, 'Internal server error' for any
\* exception that is neither ValueError nor ClientError
GenExcept(g, exception) ==
    [g EXCEPT !.pc = "done", !.raised = exception,
              !.response = create_response(500,
                 [error |-> IF exception = "ClientError" THEN "Failed to generate code"
                            ELSE "Internal server error"])]

\* the expiry taken as seconds: timestamp + CODE_EXPIRY_MINUTES
ExpiresAtNoSeconds(timestamp, minutes) == timestamp + minutes

\* line 175: expires_at = timestamp + (CODE_EXPIRY_MINUTES * 60)
ExpiresAt(timestamp, minutes) == timestamp + (minutes * 60)

\* lines 158-175: configuration check, nonce, timestamp, code, expiry
GenStartStep(env, nonce, timestamp) ==
    IF ~env.USE_KMS /\ ~Truthy(env.HMAC_SECRET)
    THEN GenFailure(GenIdle, 500,
                    "Configuration error: signing method not properly configured")
    ELSE [GenIdle EXCEPT !.pc = "sign",
                         !.nonce = nonce,
                         !.timestamp = timestamp,
                         !.code = generate_code(nonce, timestamp),
                         !.expires_at = ExpiresAt(timestamp, env.CODE_EXPIRY_MINUTES)]

\* sign_with_kms, lines 63-88: the signature, or the exception of kms_client.sign
\* (ClientError is logged and re-raised, any other exception is not caught)
sign_with_kms(code, key_id, salt, kms) ==
    IF kms = "ok"
    THEN [raised |-> NoneVal, value |-> <<KmsSignature(key_id, code, salt)>>]
    ELSE [raised |-> kms, value |-> NoSignature]

\* a signing step that swallows the KMS error and goes on with an empty signature
GenSignStepSwallow(env, g, salt, kms) ==
    IF env.USE_KMS /\ Truthy(env.KMS_KEY_ID)
    THEN LET r == sign_with_kms(g.code, env.KMS_KEY_ID, salt, kms)
         IN  [g EXCEPT !.pc = "store", !.signCalls = @ + 1, !.signature = r.value,
                       !.signing_method = "KMS"]
    ELSE IF env.HMAC_SECRET = NoneVal
         THEN GenExcept(g, "AttributeError")
         ELSE [g EXCEPT !.pc = "store", !.signCalls = @ + 1,
                        !.signature = sign_with_hmac(g.code, env.HMAC_SECRET),
                        !.signing_method = "HMAC"]

\* lines 177-183, and the except clauses they can reach
GenSignStep(env, g, salt, kms) ==
    IF env.USE_KMS /\ Truthy(env.KMS_KEY_ID)
    THEN LET r == sign_with_kms(g.code, env.KMS_KEY_ID, salt, kms)
             h == [g EXCEPT !.signCalls = @ + 1]
         IN  IF r.raised = NoneVal
             THEN [h EXCEPT !.pc = "store", !.signature = r.value,
                            !.signing_method = "KMS"]
             ELSE GenExcept(h, r.raised)
    ELSE IF env.HMAC_SECRET = NoneVal
         \* None.encode('utf-8'): AttributeError, caught by "except Exception"
         THEN GenExcept(g, "AttributeError")
         ELSE [g EXCEPT !.pc = "store", !.signCalls = @ + 1,
                        !.signature = sign_with_hmac(g.code, env.HMAC_SECRET),
                        !.signing_method = "HMAC"]

\* the item store_code_metadata puts, lines 129-137
CodeItem(code, signature, expires_at, nonce, created_at) ==
    [code |-> code, signature |-> signature, expires_at |-> expires_at,
     nonce |-> nonce, created_at |-> created_at, state |-> "active",
     ttl |-> expires_at]

HasCode(tbl, code) == \E it \in tbl : it.code = code

\* put_item without the ConditionExpression: an existing record is replaced
store_code_unconditional(tbl, code, signature, expires_at, nonce, created_at, db) ==
    IF db # "ok"
    THEN [raised |-> db, table |-> tbl]
    ELSE [raised |-> NoneVal,
          table |-> { it \in tbl : it.code # code }
                       \cup {CodeItem(code, signature, expires_at, nonce, created_at)}]

\* store_code_metadata, lines 107-143: put_item with
\* ConditionExpression attribute_not_exists(code); db is the service's answer.
\* A request that fails puts nothing; one that reaches DynamoDB while a record
\* of the code is stored is refused with ClientError (ConditionalCheckFailed)
store_code_metadata(tbl, code, signature, expires_at, nonce, created_at, db) ==
    IF db # "ok"
    THEN [raised |-> db, table |-> tbl]
    ELSE IF HasCode(tbl, code)
    THEN [raised |-> "ClientError", table |-> tbl]
    ELSE [raised |-> NoneVal,
          table |-> tbl \cup {CodeItem(code, signature, expires_at, nonce, created_at)}]

\* line 134: the Item of put_item is built before the call, and created_at is
\* the clock's reading at that moment
GenBuildStep(g, clock) == [g EXCEPT !.pc = "put", !.created_at = clock]

\* lines 185-198 once DynamoDB has answered, and the except clauses at 203-208
GenStoreStep(env, g, tbl, db) ==
    LET r == store_code_metadata(tbl, g.code, g.signature, g.expires_at, g.nonce,
                                 g.created_at, db)
        h == [g EXCEPT !.putCalls = @ + 1]
    IN  IF r.raised = NoneVal
        THEN [gen |-> [h EXCEPT !.pc = "done", !.stored = TRUE,
                         !.response = create_response(200,
                            [code |-> g.code, signature |-> g.signature,
                             expires_at |-> g.expires_at,
                             expires_in_minutes |-> env.CODE_EXPIRY_MINUTES,
                             signing_method |-> g.signing_method])],
              table |-> r.table]
        ELSE [gen |-> GenExcept(h, r.raised), table |-> tbl]

(***************************************************************************)
(* authorizer/lambda_function.py                                           *)
(***************************************************************************)
\* a ':'-free piece of a string with one of its characters changed.  index
\* counts the characters of the piece, its data characters first and its '='
\* padding after them; becomes tells what the character has become:
\*   "data"     another character of the base64 alphabet, whose 6-bit value
\*              differs from the old one in one of its 2 high-order bits
\*   "slack"    another character of the base64 alphabet, whose 6-bit value
\*              differs from the old one in its 4 low-order bits only
\*   "pad"      the character '='
\*   "junk"     an ASCII character outside the base64 alphabet, ':' included
\*   "nonascii" a character outside ASCII
\* A string with a changed character is equal to no other string
Altered(piece, index, becomes) ==
    [kind |-> "altered", of |-> piece, index |-> index, becomes |-> becomes]

\* the string has a character outside ASCII
NonAscii(signature) ==
    \E k \in 1 .. Len(signature) :
        signature[k].kind = "altered" /\ signature[k].becomes = "nonascii"

\* verify_hmac_signature, lines 33-52: None.encode raises AttributeError;
\* hmac.compare_digest raises TypeError for a str with a character outside ASCII
\* and compares the strings otherwise
verify_hmac_signature(code, signature, secret) ==
    IF secret = NoneVal THEN [raised |-> "AttributeError", value |-> FALSE]
    ELSE IF NonAscii(signature) THEN [raised |-> "TypeError", value |-> FALSE]
    ELSE [raised |-> NoneVal, value |-> (<<HmacSha256Hex(secret, code)>> = signature)]

\* the base64 characters of one ':'-free piece as its writer made it: data
\* characters, then '=' characters.  A hex digest has 64 data characters, a code
\* 32; base64.b64encode of a 256-byte KMS signature gives 342 and '=='; a text
\* is taken to be made of data characters
B64Chars(piece) ==
    IF piece.kind = "text" THEN [data |-> Len(piece.text), pad |-> 0]
    ELSE IF piece.kind = "code" THEN [data |-> 32, pad |-> 0]
    ELSE IF piece.alg = "kms" THEN [data |-> 342, pad |-> 2]
    ELSE [data |-> 64, pad |-> 0]

\* the characters from..to of a piece, all of one class ("data", "pad" or
\* "junk"); change is "none" for characters as the writer made them
Run(class, piece, from, to, change) ==
    [class |-> class, of |-> piece, from |-> from, to |-> to, change |-> change]

\* the unchanged characters from..to of a piece: its data characters, then its
\* padding
Chars(piece, from, to) ==
    LET c == B64Chars(piece)
        lastData == IF to < c.data THEN to ELSE c.data
        firstPad == IF from > c.data THEN from ELSE c.data + 1
    IN  (IF from <= lastData THEN <<Run("data", piece, from, lastData, "none")>>
         ELSE <<>>)
        \o (IF firstPad <= to THEN <<Run("pad", piece, firstPad, to, "none")>>
            ELSE <<>>)

\* the characters of a piece, as runs of one class
PieceRuns(piece) ==
    IF piece.kind = "altered"
    THEN LET c == B64Chars(piece.of)
             class == IF piece.becomes \in {"data", "slack"} THEN "data"
                      ELSE piece.becomes
         IN  Chars(piece.of, 1, piece.index - 1)
             \o <<Run(class, piece.of, piece.index, piece.index, piece.becomes)>>
             \o Chars(piece.of, piece.index + 1, c.data + c.pad)
    ELSE LET c == B64Chars(piece)
         IN  Chars(piece, 1, c.data + c.pad)

\* the characters of a string; the ':' between its pieces is outside the
\* alphabet and is left out, as the decoder skips it
RECURSIVE StringRuns(_)
StringRuns(signature) ==
    IF signature = <<>> THEN <<>>
    ELSE PieceRuns(Head(signature)) \o StringRuns(Tail(signature))

\* binascii.a2b_base64 (not strict) over the runs left of a string.  quad_pos
\* counts the data characters of the unfinished group of 4, pads the '=' seen
\* since the last data character while quad_pos >= 2.  Characters outside the
\* alphabet are skipped; a '=' with quad_pos >= 2 that brings quad_pos + pads to
\* 4 ends the decoding, whatever follows, and the bits of the last data
\* character that do not fill a byte (4 of them when quad_pos is 2) are dropped;
\* characters left in an unfinished group at the end raise binascii.Error.  The
\* bytes returned are written as the data characters read
RECURSIVE B64Scan(_, _, _, _)
B64Scan(runs, quad_pos, pads, read) ==
    IF runs = <<>>
    THEN IF quad_pos = 0
         THEN [raised |-> NoneVal, value |-> read]
         ELSE [raised |-> "binascii.Error", value |-> <<>>]
    ELSE LET r == Head(runs)
             n == r.to - r.from + 1
         IN  IF r.class = "data"
             THEN B64Scan(Tail(runs), (quad_pos + n) % 4, 0, Append(read, r))
             ELSE IF r.class = "pad" /\ quad_pos >= 2
             THEN IF quad_pos + pads + n >= 4
                  THEN [raised |-> NoneVal, value |-> read]
                  ELSE B64Scan(Tail(runs), quad_pos, pads + n, read)
             ELSE B64Scan(Tail(runs), quad_pos, pads, read)

\* line 68: base64.b64decode(signature); a str with a character outside ASCII
\* raises ValueError
b64decode(signature) ==
    IF NonAscii(signature) THEN [raised |-> "ValueError", value |-> <<>>]
    ELSE B64Scan(StringRuns(signature), 0, 0, <<>>)

\* what kms_client.verify decides for a well-formed request: signature_bytes are
\* the bytes of a signature KMS made of the code with this key.  They are, when
\* the data characters read are those of such a signature and no other, the
\* last of them possibly changed in the 4 low-order bits that decoding drops
KmsAccepts(code, signature_bytes, key_id) ==
    /\ signature_bytes # <<>>
    /\ LET s == signature_bytes[1].of
       IN  /\ s.kind = "sig"
           /\ s = KmsSignature(key_id, code, s.salt)
           /\ \/ signature_bytes = <<Run("data", s, 1, B64Chars(s).data, "none")>>
              \/ signature_bytes =
                    <<Run("data", s, 1, B64Chars(s).data - 1, "none"),
                      Run("data", s, B64Chars(s).data, B64Chars(s).data, "slack")>>

\* verify_kms_signature, lines 55-82: every exception becomes False; kms_client
\* is called only with a signature that decodes
verify_kms_signature(code, signature, key_id, kms) ==
    LET signature_bytes == b64decode(signature)
    IN  IF signature_bytes.raised # NoneVal THEN FALSE
        ELSE IF kms = "ok" THEN KmsAccepts(code, signature_bytes.value, key_id)
        ELSE FALSE

\* the remote calls of verify_kms_signature
verify_kms_calls(signature, kms) ==
    IF b64decode(signature).raised = NoneVal THEN <<"kms.verify:" \o kms>> ELSE <<>>

\* a validation that marks the record it has read as used
AfterValidationConsumed(tbl, code) ==
    { IF it.code = code THEN [it EXCEPT !.state = "used"] ELSE it : it \in tbl }

\* the table after validate_code: get_item (line 97) is its only access, and
\* nothing is written
AfterValidation(tbl, code) == tbl

\* a lookup that returns some item of the table, whatever its key
get_any_metadata(tbl, code) ==
    IF tbl # {}
    THEN [found |-> TRUE, item |-> CHOOSE it \in tbl : TRUE]
    ELSE [found |-> FALSE, item |-> [code |-> code]]

\* get_code_metadata, lines 85-108, after a successful get_item
get_code_metadata(tbl, code) ==
    IF HasCode(tbl, code)
    THEN [found |-> TRUE, item |-> CHOOSE it \in tbl : it.code = code]
    ELSE [found |-> FALSE, item |-> [code |-> code]]

Verdict(is_valid, error_message, calls) ==
    [raised |-> NoneVal, is_valid |-> is_valid, error_message |-> error_message,
     calls |-> calls]

\* the comparison turned around
IsExpiredReversed(current_time, expires_at) == current_time < expires_at

\* the comparison with the deadline itself counted as expired
IsExpiredAtDeadline(current_time, expires_at) == current_time >= expires_at

\* a validation without the expiry test
NeverExpired(current_time, expires_at) == FALSE

\* the stored signature never compared with the presented one
SignatureNeverMismatch(stored_signature, signature) == FALSE

\* line 145: if current_time > expires_at
IsExpired(current_time, expires_at) == current_time > expires_at

\* line 151: if stored_signature != signature
SignatureMismatch(stored_signature, signature) == stored_signature # signature

\* validate_code has raised instead of returning
ValidationRaised(exception, calls) ==
    [raised |-> exception, is_valid |-> FALSE, error_message |-> NoneVal,
     calls |-> calls]

\* validate_code, lines 111-165.  db and kms are the answers of the two services,
\* calls the remote calls made, in order.  ClientError of get_item is caught
\* (lines 134-135), any other exception of it leaves the function
validate_code(code, signature, env, tbl, db, current_time, kms) ==
    IF ~env.USE_KMS /\ ~Truthy(env.HMAC_SECRET)
    THEN Verdict(FALSE, "Configuration error", <<>>)
    ELSE IF db = "ClientError"
    THEN Verdict(FALSE, "Database error", <<"get_item:ClientError">>)
    ELSE IF db # "ok"
    THEN ValidationRaised(db, <<"get_item:" \o db>>)
    ELSE LET metadata == get_code_metadata(tbl, code)
             read == <<"get_item:ok">>
         IN  IF ~metadata.found
             THEN Verdict(FALSE, "Invalid code", read)
             ELSE IF metadata.item.state # "active"
             THEN Verdict(FALSE, "Code is not active", read)
             ELSE IF IsExpired(current_time, metadata.item.expires_at)
             THEN Verdict(FALSE, "Code has expired", read)
             ELSE IF SignatureMismatch(metadata.item.signature, signature)
             THEN Verdict(FALSE, "Invalid signature", read)
             ELSE IF env.USE_KMS /\ Truthy(env.KMS_KEY_ID)
             THEN IF verify_kms_signature(code, signature, env.KMS_KEY_ID, kms)
                  THEN Verdict(TRUE, NoneVal, read \o verify_kms_calls(signature, kms))
                  ELSE Verdict(FALSE, "Signature verification failed",
                               read \o verify_kms_calls(signature, kms))
             ELSE LET h == verify_hmac_signature(code, signature, env.HMAC_SECRET)
                  IN  IF h.raised # NoneVal THEN ValidationRaised(h.raised, read)
                      ELSE IF h.value THEN Verdict(TRUE, NoneVal, read)
                      ELSE Verdict(FALSE, "Signature verification failed", read)

\* generate_policy, lines 168-193
generate_policy(principal_id, resource, effect) ==
    [principalId |-> principal_id,
     policyDocument |->
        [Version |-> "2012-10-17",
         Statement |-> << [Action |-> "execute-api:Invoke", Effect |-> effect,
                           Resource |-> resource] >>]]

\* a handler that allows whatever validate_code returned
PolicyAlwaysAllow(is_valid, code, method_arn) ==
    generate_policy(code, method_arn, "Allow")

\* lines 227-232: the policy returned for validate_code's verdict
PolicyFor(is_valid, code, method_arn) ==
    IF is_valid
    THEN generate_policy(code, method_arn, "Allow")
    ELSE generate_policy("user", method_arn, "Deny")

NoVerdict ==
    [raised |-> NoneVal, is_valid |-> FALSE, error_message |-> "not called",
     calls |-> <<>>]

\* lambda_handler, lines 196-278, for an event of type TOKEN.  The token is the
\* sequence of its ':'-free segments; token.split(':', 1) gives the first segment
\* and the rest, and unpacking a single segment raises ValueError.
authorizer_handler(event, env, tbl, db, current_time, kms) ==
    LET token == event.authorizationToken
        method_arn == event.methodArn
    IN  IF Len(token) < 2
        THEN [validated |-> FALSE, verdict |-> NoVerdict,
              out |-> generate_policy("user", method_arn, "Deny")]
        ELSE LET code == Head(token)
                 signature == Tail(token)
                 v == validate_code(code, signature, env, tbl, db, current_time, kms)
             IN  IF v.raised # NoneVal
                 THEN [validated |-> TRUE, verdict |-> v,
                       out |-> create_response(500, [error |-> "Internal server error"])]
                 ELSE [validated |-> TRUE, verdict |-> v,
                       out |-> PolicyFor(v.is_valid, code, method_arn)]


(***************************************************************************)
(* code_generator/dictionary.py and authorizer/dictionary.py.              *)
(* A bit string is a sequence over {0, 1}; a word is the sequence of the   *)
(* prefix "word" and its characters after it.                              *)
(***************************************************************************)
DigitChars == <<"0", "1", "2", "3", "4", "5", "6", "7", "8", "9">>

\* f"word{i:04d}" for 0 <= i <= 9999
WordOf(i) ==
    <<"word", DigitChars[((i \div 1000) % 10) + 1], DigitChars[((i \div 100) % 10) + 1],
      DigitChars[((i \div 10) % 10) + 1], DigitChars[(i % 10) + 1]>>

\* DICTIONARY = [f"word{i:04d}" for i in range(1024)], indexed from 0
DICTIONARY == [i \in 0 .. 1023 |-> WordOf(i)]

\* int(s, 2) for a string of binary digits
RECURSIVE BinToInt(_)
BinToInt(s) ==
    IF s = <<>> THEN 0 ELSE 2 * BinToInt(SubSeq(s, 1, Len(s) - 1)) + s[Len(s)]

RECURSIVE BinDigits(_)
BinDigits(n) == IF n = 0 THEN <<>> ELSE BinDigits(n \div 2) \o <<n % 2>>

\* f"{index:b}": the binary digits without the zero padding
Bin10Unpadded(index) == BinDigits(index)

\* f"{index:010b}": at least 10 binary digits, zero-padded on the left
Bin10(index) ==
    LET d == BinDigits(index)
    IN  IF Len(d) >= 10 THEN d ELSE [k \in 1 .. (10 - Len(d)) |-> 0] \o d

Returned(value) == [raised |-> NoneVal, message |-> <<>>, value |-> value]
Raised(exception, message) == [raised |-> exception, message |-> message, value |-> <<>>]

\* encode_bits_to_words, code_generator/dictionary.py lines 9-27
encode_bits_to_words(bits_100) ==
    IF Len(bits_100) # 100
    THEN Raised("ValueError", <<"Expected 100 bits, got", Len(bits_100)>>)
    ELSE Returned([k \in 1 .. 10 |->
                     DICTIONARY[BinToInt(SubSeq(bits_100, 10 * (k - 1) + 1, 10 * k))]])

\* DICTIONARY.index(word): the first index holding word, -1 for ValueError
DictionaryIndex(word) ==
    IF \E i \in 0 .. 1023 : DICTIONARY[i] = word
    THEN CHOOSE i \in 0 .. 1023 :
            /\ DICTIONARY[i] = word
            /\ \A j \in 0 .. (i - 1) : DICTIONARY[j] # word
    ELSE -1

RECURSIVE DecodeLoop(_, _)
\* the loop of decode_words_to_bits: bits so far, words left
DecodeLoop(bits, words) ==
    IF words = <<>> THEN Returned(bits)
    ELSE LET index == DictionaryIndex(Head(words))
         IN  IF index = -1
             THEN Raised("ValueError", <<"Unknown word:", Head(words)>>)
             ELSE DecodeLoop(bits \o Bin10(index), Tail(words))

\* decode_words_to_bits without its check of the word count
decode_words_unchecked(words) == DecodeLoop(<<>>, words)

\* decode_words_to_bits, code_generator/dictionary.py lines 30-50
decode_words_to_bits(words) ==
    IF Len(words) # 10
    THEN Raised("ValueError", <<"Expected 10 words, got", Len(words)>>)
    ELSE DecodeLoop(<<>>, words)

\* decode_words_to_bits, authorizer/dictionary.py lines 9-29
authorizer_decode_words_to_bits(words) ==
    IF Len(words) # 10
    THEN Raised("ValueError", <<"Expected 10 words, got", Len(words)>>)
    ELSE DecodeLoop(<<>>, words)

(***************************************************************************)
(* presign_url/lambda_function.py                                          *)
(* A content type or allow-list entry is the sequence of its pieces: the   *)
(* characters "/" and "*" each stand alone, any other piece is a non-empty *)
(* run of other characters.  The empty sequence is the empty string; a     *)
(* missing (None) content type is falsy like it and is written the same.   *)
(***************************************************************************)
\* '*' in s
HasStar(s) == \E k \in 1 .. Len(s) : s[k] = "*"

\* s.endswith('/*')
EndsWithSlashStar(s) == Len(s) >= 2 /\ s[Len(s) - 1] = "/" /\ s[Len(s)] = "*"

\* s.split('/')[0]: the text before the first '/'
RECURSIVE BeforeSlash(_)
BeforeSlash(s) ==
    IF s = <<>> \/ Head(s) = "/" THEN <<>> ELSE <<Head(s)>> \o BeforeSlash(Tail(s))

\* s.startswith(prefix), for a prefix that ends with '/'
StartsWith(s, prefix) ==
    Len(s) >= Len(prefix) /\ SubSeq(s, 1, Len(prefix)) = prefix

RECURSIVE AllowedLoop(_, _)
\* the for loop of validate_content_type, lines 315-324, over the entries left
AllowedLoop(entries, content_type) ==
    IF entries = <<>> THEN FALSE
    ELSE LET allowed == Head(entries)
         IN  IF allowed = <<"*", "/", "*">> \/ allowed = <<"*">> THEN TRUE
             ELSE IF EndsWithSlashStar(allowed)
             THEN IF StartsWith(content_type, BeforeSlash(allowed) \o <<"/">>)
                  THEN TRUE
                  ELSE AllowedLoop(Tail(entries), content_type)
             ELSE IF allowed = content_type THEN TRUE
             ELSE AllowedLoop(Tail(entries), content_type)

\* validate_content_type, lines 306-326, for ALLOWED_CONTENT_TYPES = allowed_types
validate_content_type(allowed_types, content_type) ==
    IF \E k \in 1 .. Len(allowed_types) :
          HasStar(allowed_types[k]) \/ allowed_types[k] = <<"*", "/", "*">>
    THEN TRUE
    ELSE IF content_type = <<>> THEN FALSE
    ELSE AllowedLoop(allowed_types, content_type)

\* a dictionary entry: present with a value, or missing
Some(value) == [present |-> TRUE, null |-> FALSE, value |-> value]
Missing == [present |-> FALSE, null |-> FALSE, value |-> NoneVal]
\* a missing entry of a dictionary whose values are dictionaries: empty is {}
MissingDict(empty) == [present |-> FALSE, null |-> FALSE, value |-> empty]
\* an entry present with the value None (JSON null) where a dictionary is expected
NullDict(empty) == [present |-> TRUE, null |-> TRUE, value |-> empty]
\* {} where an authorizer context, and where a request context, is expected
EmptyAuthorizer == [principalId |-> Missing]
EmptyRequestContext == [authorizer |-> MissingDict(EmptyAuthorizer)]
\* dict.get(key, default)
Get(entry, default) == IF entry.present THEN entry.value ELSE default

\* the response of the presign handler, with the STS and S3 calls it has made
PresignOut(status_code, body, calls) ==
    [statusCode |-> status_code, body |-> body, calls |-> calls]

\* lines 335-336: event.get('requestContext', {}).get('authorizer', {})
\*                     .get('principalId')
\* dict.get returns the default only for a missing key: a requestContext or an
\* authorizer that is None is returned as it is, and None.get raises AttributeError
PrincipalIdOf(event) ==
    IF event.requestContext.null THEN Raised("AttributeError", <<>>)
    ELSE LET request_context == Get(event.requestContext, EmptyRequestContext)
         IN  IF request_context.authorizer.null THEN Raised("AttributeError", <<>>)
             ELSE Returned(Get(Get(request_context.authorizer, EmptyAuthorizer).principalId,
                               NoneVal))

\* get_s3_client_with_assumed_role (lines 42-87) and the S3 call of one of the
\* functions at lines 104-303; sts and s3 are the answers of the two services.
\* The handler answers ClientError with 500 'AWS error: ...' (lines 408-410) and
\* any other exception of boto3 with 500 'Internal server error' (lines 411-413)
AssumeRoleAndCall(api, key, result, sts, s3) ==
    LET assume == [api |-> "sts.assume_role", key |-> <<>>]
        call == [api |-> api, key |-> key]
    IN  IF sts = "ClientError"
        THEN PresignOut(500, "AWS error", <<assume>>)
        ELSE IF sts = "NoCredentials"
        THEN PresignOut(400, "No credentials returned from AssumeRole", <<assume>>)
        ELSE IF sts # "ok"
        THEN PresignOut(500, "Internal server error", <<assume>>)
        ELSE IF s3 = "ClientError"
        THEN PresignOut(500, "AWS error", <<assume, call>>)
        ELSE IF s3 # "ok"
        THEN PresignOut(500, "Internal server error", <<assume, call>>)
        ELSE PresignOut(200, result, <<assume, call>>)

\* presign_url lambda_handler, lines 329-413.  A falsy value (None, '', 0, [])
\* of key, contentType, partNumber and parts is written <<>>, <<>>, 0 and <<>>.
presign_handler(event, allowed_types, sts, s3) ==
    LET principal == PrincipalIdOf(event)
        key_id == principal.value
        body == event.body
        action == Get(body.action, "getPresignedUrl")
        content_type == body.contentType
        upload_id == body.uploadId
        part_number == body.partNumber
        parts == body.parts
        key == IF body.key = <<>> THEN <<"uploads", key_id, "timestamp">> ELSE body.key
    IN  IF principal.raised # NoneVal
        \* caught by "except Exception", lines 411-413
        THEN PresignOut(500, "Internal server error", <<>>)
        ELSE IF ~Truthy(key_id)
        THEN PresignOut(401, "Unauthorized: missing authorizer context", <<>>)
        ELSE IF content_type # <<>> /\ ~validate_content_type(allowed_types, content_type)
        THEN PresignOut(400, "Content type not allowed", <<>>)
        ELSE IF action = "getPresignedUrl"
        THEN IF content_type = <<>>
             THEN PresignOut(400, "contentType is required for single-part upload", <<>>)
             ELSE AssumeRoleAndCall("s3.generate_presigned_url:put_object", key, "url", sts, s3)
        ELSE IF action = "createMultipartUpload"
        THEN IF content_type = <<>>
             THEN PresignOut(400, "contentType is required for multipart upload", <<>>)
             ELSE AssumeRoleAndCall("s3.create_multipart_upload", key, "uploadId", sts, s3)
        ELSE IF action = "getSignedUrlForPart"
        THEN IF ~Truthy(upload_id) \/ part_number = 0
             THEN PresignOut(400, "uploadId and partNumber are required", <<>>)
             ELSE AssumeRoleAndCall("s3.generate_presigned_url:upload_part", key, "url", sts, s3)
        ELSE IF action = "listParts"
        THEN IF ~Truthy(upload_id)
             THEN PresignOut(400, "uploadId is required", <<>>)
             ELSE AssumeRoleAndCall("s3.list_parts", key, "parts", sts, s3)
        ELSE IF action = "completeMultipartUpload"
        THEN IF ~Truthy(upload_id) \/ parts = <<>>
             THEN PresignOut(400, "uploadId and parts are required", <<>>)
             ELSE AssumeRoleAndCall("s3.complete_multipart_upload", key, "location", sts, s3)
        ELSE IF action = "abortMultipartUpload"
        THEN IF ~Truthy(upload_id)
             THEN PresignOut(400, "uploadId is required", <<>>)
             ELSE AssumeRoleAndCall("s3.abort_multipart_upload", key, "success", sts, s3)
        ELSE PresignOut(400, "Unknown action", <<>>)

(***************************************************************************)
(* State.                                                                  *)
(***************************************************************************)
VARIABLES
    genEnv,     \* the generator's environment variables
    authEnv,    \* the authorizer's environment variables
    now,        \* the generator's clock, Unix seconds
    table,      \* the DynamoDB table: a set of items, at most one per code
    gen,        \* gen[i]: invocation i of the generator's lambda_handler
    auth,       \* the authorizer invocation that has just returned, if any
    other,      \* another authorizer invocation, running beside the one followed
    codec,      \* the last call of the word codec: its arguments and its result
    presign     \* the presign Lambda: its allow-list and its last call

vars == <<genEnv, authEnv, now, table, gen, auth, other, codec, presign>>

GenEnvs ==
    { [USE_KMS |-> c.USE_KMS, KMS_KEY_ID |-> c.KMS_KEY_ID,
       HMAC_SECRET |-> c.HMAC_SECRET, CODE_EXPIRY_MINUTES |-> m] :
         c \in GenConfigs, m \in ExpiryChoices }

Instants == { StartTime + o : o \in ClockOffsets }

MethodArn == "arn:aws:execute-api:method"

NoMetadata == [found |-> FALSE, item |-> [code |-> NoCode]]

\* no validation came before
NoEarlier ==
    [set |-> FALSE, metadata |-> NoMetadata, current_time |-> 0,
     verdict |-> NoVerdict, out |-> NoResponse]

\* no invocation of the authorizer is under way
NoAuth ==
    [pc |-> "none", done |-> FALSE, token |-> <<>>, started_at |-> 0,
     metadata |-> NoMetadata, current_time |-> 0,
     validated |-> FALSE, verdict |-> NoVerdict, out |-> NoResponse,
     earlier |-> NoEarlier]

\* no other invocation of the authorizer is under way
NoOther == [pc |-> "none", code |-> NoCode]

NoCodec == [op |-> "none", module |-> NoneVal, bits |-> <<>>, words |-> <<>>,
            result |-> Returned(<<>>)]

\* ALLOWED_CONTENT_TYPES unset: the default '*/*' (line 35); no call yet: the
\* event is one without authorizer context and with an empty body
NoPresign ==
    [allowed |-> << <<"*", "/", "*">> >>, op |-> "none", content_type |-> <<>>,
     valid |-> FALSE,
     event |-> [requestContext |-> MissingDict(EmptyRequestContext),
                body |-> [action |-> Missing, key |-> <<>>, contentType |-> <<>>,
                          uploadId |-> NoneVal, partNumber |-> 0, parts |-> <<>>]],
     out |-> PresignOut(0, "none", <<>>)]

\* the deployments observed: the default time to live with every authorizer
\* configuration, another time to live with the authorizer of the same setup
Deployments ==
    { d \in GenEnvs \X AuthConfigs :
        \/ d[1].CODE_EXPIRY_MINUTES = 60
        \/ d[2] = [USE_KMS |-> d[1].USE_KMS, KMS_KEY_ID |-> d[1].KMS_KEY_ID,
                   HMAC_SECRET |-> d[1].HMAC_SECRET] }

Init ==
    /\ \E d \in Deployments : genEnv = d[1] /\ authEnv = d[2]
    /\ now = StartTime
    /\ table = {}
    /\ gen = [i \in 1 .. NumGen |-> GenIdle]
    /\ auth = NoAuth
    /\ other = NoOther
    /\ codec = NoCodec
    /\ presign = NoPresign

\* what a call of boto3 may do: return, raise ClientError (the service answers
\* with an error), or raise another exception (botocore's BotoCoreError: no
\* connection to the endpoint, a timeout)
ServiceAnswers == {"ok", "ClientError", "BotoCoreError"}

\* the answers of KMS: a failure is drawn only where KMS is called at all
KmsAnswers(env) ==
    IF env.USE_KMS /\ Truthy(env.KMS_KEY_ID) THEN ServiceAnswers ELSE {"ok"}

\* the values generate_nonce has returned: those of the invocations that reached
\* line 169 (an invocation stopped by the configuration check has drawn none and
\* its nonce field keeps the value it had before the call)
UsedNonces == { gen[j].nonce : j \in { k \in 1 .. NumGen : gen[k].nonce \in Nonces } }

\* the values generate_nonce may return next.  Nonces are random labels: one
\* returned before, or a new one, named by the smallest number not yet returned
NextNonces == { n \in Nonces : n \in UsedNonces \/ \A m \in Nonces \ UsedNonces : n <= m }

(***************************************************************************)
(* The generator's lambda_handler, lines 146-208, step by step: invocations *)
(* run concurrently and are numbered in the order they start.  A response  *)
(* of the authorizer is taken (Return) before the system is looked at again.*)
(***************************************************************************)
\* lines 158-175: the configuration check, the nonce, the clock read for timestamp
GenStart(i) ==
    /\ ~auth.done
    /\ gen[i].pc = "idle"
    /\ \A j \in 1 .. (i - 1) : gen[j].pc # "idle"
    /\ \E nonce \in NextNonces :
          gen' = [gen EXCEPT ![i] = GenStartStep(genEnv, nonce, now)]
    /\ UNCHANGED <<other, presign, codec, genEnv, authEnv, now, table, auth>>

\* lines 177-183: the signature, KMS answering where it is called
GenSign(i) ==
    /\ ~auth.done
    /\ gen[i].pc = "sign"
    /\ \E kms \in KmsAnswers(genEnv) :
          gen' = [gen EXCEPT ![i] = GenSignStep(genEnv, gen[i], i, kms)]
    /\ UNCHANGED <<other, presign, codec, genEnv, authEnv, now, table, auth>>

\* line 134: the clock read for created_at, before put_item is called
GenBuild(i) ==
    /\ ~auth.done
    /\ gen[i].pc = "store"
    /\ gen' = [gen EXCEPT ![i] = GenBuildStep(gen[i], now)]
    /\ UNCHANGED <<other, presign, codec, genEnv, authEnv, now, table, auth>>

\* line 128: DynamoDB applies the put, or fails; the handler returns
GenStore(i) ==
    /\ ~auth.done
    /\ gen[i].pc = "put"
    /\ \E db \in ServiceAnswers :
          LET r == GenStoreStep(genEnv, gen[i], table, db)
          IN  /\ gen' = [gen EXCEPT ![i] = r.gen]
              /\ table' = r.table
    /\ UNCHANGED <<other, presign, codec, genEnv, authEnv, now, auth>>

(***************************************************************************)
(* The authorizer, invoked by API Gateway with a TOKEN event.  One         *)
(* invocation is followed at a time; it is cut at get_item (line 98), at   *)
(* its reading of the clock (line 143) and at kms_client.verify (line 69). *)
(***************************************************************************)
\* a signature string with one bit flipped: the character at position index of
\* its k-th piece becomes a character of the class becomes
FlipBit(signature, k, index, becomes) ==
    [signature EXCEPT ![k] = Altered(signature[k], index, becomes)]

\* presented is signature with one bit flipped
IsFlipOf(presented, signature) ==
    /\ Len(presented) = Len(signature)
    /\ \E k \in 1 .. Len(signature) :
          /\ presented[k].kind = "altered"
          /\ presented[k].of = signature[k]
          /\ presented[k].index \in
                1 .. (B64Chars(signature[k]).data + B64Chars(signature[k]).pad)
          /\ presented[k].becomes \in {"data", "slack", "pad", "junk", "nonascii"}
          /\ \A j \in 1 .. Len(signature) : j # k => presented[j] = signature[j]

\* the bit flips tried on a one-piece signature: in its first character, which
\* becomes another data character, a character outside the alphabet or one
\* outside ASCII, and in its last data character, changed in its low-order bits
FlipsOf(signature) ==
    { FlipBit(signature, 1, 1, becomes) : becomes \in {"data", "junk", "nonascii"} }
    \cup { FlipBit(signature, 1, B64Chars(signature[1]).data, "slack") }

SignaturesOf(code) ==
    { gen[i].signature :
        i \in { j \in 1 .. NumGen : gen[j].code = code /\ gen[j].signature # <<>> } }

\* the authorizationToken values presented: issued pairs, altered signatures,
\* a token without ':', a code never issued with a signature never made
Tokens ==
    UNION { UNION { { <<c>> \o s } \cup { <<c>> \o f : f \in FlipsOf(s) } :
                      s \in SignaturesOf(c) } :
              c \in { gen[i].code : i \in 1 .. NumGen } \ {NoCode} }
    \cup { <<Text("")>>,
           <<NoCode>> \o FlipBit(sign_with_hmac(NoCode, "s1"), 1, 1, "data") }

TokenEvent(token) ==
    [type |-> "TOKEN", authorizationToken |-> token, methodArn |-> MethodArn]

\* the table as the invocation has seen it: the item get_item returned, if any
ItemRead(metadata) == IF metadata.found THEN {metadata.item} ELSE {}

\* lines 220, 123: the handler calls get_item
ReadsTable(token, env) ==
    /\ Len(token) >= 2
    /\ (env.USE_KMS \/ Truthy(env.HMAC_SECRET))

\* lines 130, 138: the handler goes on to read the clock
ReadsClock(metadata) ==
    /\ metadata.found
    /\ metadata.item.state = "active"

\* lines 145, 151, 156, 68: the handler goes on to call kms_client.verify
CallsKms(token, env, metadata, current_time) ==
    /\ ~IsExpired(current_time, metadata.item.expires_at)
    /\ ~SignatureMismatch(metadata.item.signature, Tail(token))
    /\ env.USE_KMS
    /\ Truthy(env.KMS_KEY_ID)
    /\ b64decode(Tail(token)).raised = NoneVal

\* the invocation returns: the handler's result on what it has read
Returning(a, db, current_time, kms) ==
    LET r == authorizer_handler(TokenEvent(a.token), authEnv, ItemRead(a.metadata),
                                db, current_time, kms)
    IN  [a EXCEPT !.pc = "done", !.done = TRUE, !.current_time = current_time,
                  !.validated = r.validated, !.verdict = r.verdict, !.out = r.out]

\* what a returning validation has written to the table
Written(a) == IF a.validated THEN AfterValidation(table, Head(a.token)) ELSE table

\* the invocation starts and DynamoDB answers get_item, when it is called
Invoke(token, earlier) ==
    \E db \in ServiceAnswers :
        LET reads == ReadsTable(token, authEnv) /\ db = "ok"
            a == [NoAuth EXCEPT
                    !.token = token,
                    !.started_at = now,
                    !.earlier = earlier,
                    !.metadata = IF reads THEN get_code_metadata(table, Head(token))
                                 ELSE NoMetadata]
        IN  IF reads /\ ReadsClock(a.metadata)
            THEN /\ auth' = [a EXCEPT !.pc = "clock"]
                 /\ table' = table
            ELSE /\ auth' = Returning(a, db, 0, "ok")
                 /\ table' = Written(auth')

Authorize ==
    /\ auth.pc = "none"
    /\ \E token \in Tokens : Invoke(token, NoEarlier)
    /\ UNCHANGED <<other, presign, codec, genEnv, authEnv, now, gen>>

\* line 143: the authorizer's clock is read; it may lag by skew.  The handler
\* returns, or goes on to call KMS
AuthorizeClock ==
    /\ auth.pc = "clock"
    /\ \E skew \in ClockSkews :
          LET current_time == now + skew
          IN  IF CallsKms(auth.token, authEnv, auth.metadata, current_time)
              THEN /\ auth' = [auth EXCEPT !.pc = "verify", !.current_time = current_time]
                   /\ table' = table
              ELSE /\ auth' = Returning(auth, "ok", current_time, "ok")
                   /\ table' = Written(auth')
    /\ UNCHANGED <<other, presign, codec, genEnv, authEnv, now, gen>>

\* line 69: KMS answers, and the handler returns
AuthorizeVerify ==
    /\ auth.pc = "verify"
    /\ \E kms \in ServiceAnswers :
          /\ auth' = Returning(auth, "ok", auth.current_time, kms)
          /\ table' = Written(auth')
    /\ UNCHANGED <<other, presign, codec, genEnv, authEnv, now, gen>>

\* API Gateway takes the response of a validation whose services answered, and
\* the caller keeps the token to present it again; earlier keeps what this
\* validation read and returned.  Repetition is followed for the tokens in
\* which no character was changed
KeepToken ==
    /\ auth.done
    /\ auth.validated
    /\ \A k \in 1 .. Len(auth.token) : auth.token[k].kind # "altered"
    /\ \A k \in 1 .. Len(auth.verdict.calls) :
          auth.verdict.calls[k] \in {"get_item:ok", "kms.verify:ok"}
    /\ auth' = [NoAuth EXCEPT
                  !.pc = "kept",
                  !.token = auth.token,
                  !.earlier = [set |-> TRUE, metadata |-> auth.metadata,
                               current_time |-> auth.current_time,
                               verdict |-> auth.verdict, out |-> auth.out]]
    /\ UNCHANGED <<other, presign, codec, genEnv, authEnv, now, table, gen>>

\* the token kept is presented once more, in a new invocation, after whatever the
\* generator, the clock and the TTL cleanup have done in between
Revalidate ==
    /\ auth.pc = "kept"
    /\ Invoke(auth.token, auth.earlier)
    /\ UNCHANGED <<other, presign, codec, genEnv, authEnv, now, gen>>

\* another invocation of the authorizer runs beside the one followed, or after
\* it while its token is kept, for any token: it passes the configuration check
\* and DynamoDB answers its get_item (line 98)
OtherStart ==
    /\ ~auth.done
    /\ auth.pc # "none"
    /\ other.pc = "none"
    /\ \E token \in Tokens :
          /\ ReadsTable(token, authEnv)
          /\ other' = [pc |-> "read", code |-> Head(token)]
    /\ UNCHANGED <<genEnv, authEnv, now, table, gen, auth, codec, presign>>

\* the other invocation goes through the rest of validate_code and returns
OtherReturn ==
    /\ ~auth.done
    /\ other.pc = "read"
    /\ table' = AfterValidation(table, other.code)
    /\ other' = NoOther
    /\ UNCHANGED <<genEnv, authEnv, now, gen, auth, codec, presign>>

\* API Gateway takes the authorizer's response
Return ==
    /\ auth.done
    /\ auth' = NoAuth
    /\ UNCHANGED <<other, presign, codec, genEnv, authEnv, now, table, gen>>

(***************************************************************************)
(* The environment: time passes, and DynamoDB's TTL sweep deletes items    *)
(* whose ttl attribute is in the past.                                     *)
(***************************************************************************)
Tick ==
    /\ ~auth.done
    /\ \E t \in Instants : t > now /\ now' = t
    /\ UNCHANGED <<other, presign, codec, genEnv, authEnv, table, gen, auth>>

TtlCleanup ==
    /\ ~auth.done
    /\ \E it \in table :
          /\ it.ttl < now
          /\ table' = table \ {it}
    /\ UNCHANGED <<other, presign, codec, genEnv, authEnv, now, gen, auth>>

\* the generator alone, with the clock and the TTL cleanup
NextConcurrent ==
    \/ \E i \in 1 .. NumGen : GenStart(i)
    \/ \E i \in 1 .. NumGen : GenSign(i)
    \/ \E i \in 1 .. NumGen : GenBuild(i)
    \/ \E i \in 1 .. NumGen : GenStore(i)
    \/ Tick
    \/ TtlCleanup

\* the generator and the authorizer
Next ==
    \/ NextConcurrent
    \/ Authorize
    \/ AuthorizeClock
    \/ AuthorizeVerify
    \/ Return

Spec == Init /\ [][Next]_vars

\* the same system with validations repeated, and with a second invocation of
\* the authorizer running beside the first
NextRepeat ==
    \/ Next
    \/ KeepToken
    \/ Revalidate
    \/ OtherStart
    \/ OtherReturn

\* validations are repeated where the time to live is the default and the
\* authorizer has the generator's setup
InitRepeat ==
    /\ Init
    /\ genEnv.CODE_EXPIRY_MINUTES = 60
    /\ authEnv = [USE_KMS |-> genEnv.USE_KMS, KMS_KEY_ID |-> genEnv.KMS_KEY_ID,
                  HMAC_SECRET |-> genEnv.HMAC_SECRET]

SpecRepeat == InitRepeat /\ [][NextRepeat]_vars

\* no authorizer is invoked here: it is given the generator's setup
InitConcurrent ==
    /\ Init
    /\ authEnv = [USE_KMS |-> genEnv.USE_KMS, KMS_KEY_ID |-> genEnv.KMS_KEY_ID,
                  HMAC_SECRET |-> genEnv.HMAC_SECRET]

SpecConcurrent == InitConcurrent /\ [][NextConcurrent]_vars

(***************************************************************************)
(* The word codec, called on its own.                                      *)
(***************************************************************************)
\* chunk values the inputs are built from: position k holds one of two values
ChunkLow  == <<0, 1, 2, 5, 10, 100, 511, 512, 1000, 1023>>
ChunkHigh == <<1023, 682, 341, 7, 64, 999, 256, 1, 1022, 0>>

RECURSIVE Flatten(_)
Flatten(chunks) ==
    IF chunks = <<>> THEN <<>> ELSE Head(chunks) \o Flatten(Tail(chunks))

\* the 10 binary digits of n, most significant first
TenBits(n) == [j \in 1 .. 10 |-> (n \div (2 ^ (10 - j))) % 2]

\* 100-character bit strings
BitInputs ==
    { Flatten([k \in 1 .. 10 |-> TenBits(IF k \in hi THEN ChunkHigh[k] ELSE ChunkLow[k])]) :
        hi \in SUBSET (1 .. 10) }

\* bit strings of other lengths
ShortBitInputs == { <<>>, [k \in 1 .. 99 |-> 1], [k \in 1 .. 101 |-> 0] }

\* tokens that are no dictionary word
ForeignWords ==
    { <<"word", "X", "X", "X", "X">>, <<"word", "1", "0", "2", "4">>,
      <<"Word", "0", "0", "0", "1">>, <<"word", "1">>, <<"">> }

TenWords == [k \in 1 .. 10 |-> WordOf(ChunkLow[k])]

\* word sequences handed to decode directly: wrong lengths, foreign tokens
WordInputs ==
    { SubSeq(TenWords, 1, 9), TenWords \o <<WordOf(3)>>, <<>>, TenWords }
    \cup { [TenWords EXCEPT ![k] = w] : k \in {1, 4, 10}, w \in ForeignWords }
    \cup { SubSeq([TenWords EXCEPT ![2] = w], 1, 9) : w \in ForeignWords }
    \cup { [TenWords EXCEPT ![3] = w1, ![8] = w2] :
             w1 \in ForeignWords, w2 \in ForeignWords }

CodecModules == {"code_generator", "authorizer"}

DecodeIn(module, words) ==
    IF module = "authorizer" THEN authorizer_decode_words_to_bits(words)
    ELSE decode_words_to_bits(words)

\* calls are observed one at a time: the previous result has been taken
Encode ==
    /\ codec.op = "none"
    /\ \E bits \in BitInputs \cup ShortBitInputs :
          codec' = [op |-> "encode", module |-> "code_generator", bits |-> bits,
                    words |-> <<>>, result |-> encode_bits_to_words(bits)]
    /\ UNCHANGED <<other, genEnv, authEnv, now, table, gen, auth, presign>>

\* decode what encode has just returned
DecodeEncoded ==
    /\ codec.op = "encode"
    /\ codec.result.raised = NoneVal
    /\ \E module \in CodecModules :
          codec' = [op |-> "decode", module |-> module, bits |-> codec.bits,
                    words |-> codec.result.value,
                    result |-> DecodeIn(module, codec.result.value)]
    /\ UNCHANGED <<other, genEnv, authEnv, now, table, gen, auth, presign>>

Decode ==
    /\ codec.op = "none"
    /\ \E words \in WordInputs, module \in CodecModules :
          codec' = [op |-> "decode", module |-> module, bits |-> <<>>,
                    words |-> words, result |-> DecodeIn(module, words)]
    /\ UNCHANGED <<other, genEnv, authEnv, now, table, gen, auth, presign>>

InitCodec ==
    /\ genEnv \in { e \in GenEnvs : e.HMAC_SECRET = "s1" /\ e.CODE_EXPIRY_MINUTES = 60 }
    /\ authEnv \in { e \in AuthConfigs : e.HMAC_SECRET = "s1" }
    /\ now = StartTime
    /\ table = {}
    /\ gen = [i \in 1 .. NumGen |-> GenIdle]
    /\ auth = NoAuth
    /\ other = NoOther
    /\ codec = NoCodec
    /\ presign = NoPresign

\* the caller takes the result
CodecReturn ==
    /\ codec.op # "none"
    /\ codec' = NoCodec
    /\ UNCHANGED <<other, genEnv, authEnv, now, table, gen, auth, presign>>

NextCodec == Encode \/ DecodeEncoded \/ Decode \/ CodecReturn

SpecCodec == InitCodec /\ [][NextCodec]_vars

(***************************************************************************)
(* Properties of the word codec.                                           *)
(***************************************************************************)
\* the value of the k-th 10-bit chunk of a bit string, most significant bit first
ChunkValue(bits, k) ==
    LET b(j) == bits[10 * (k - 1) + j]
    IN  512 * b(1) + 256 * b(2) + 128 * b(3) + 64 * b(4) + 32 * b(5)
        + 16 * b(6) + 8 * b(7) + 4 * b(8) + 2 * b(9) + b(10)

\* word is one of the 1024 words "word0000" .. "word1023"
InDictionary(word) == \E i \in 0 .. 1023 : word = WordOf(i)

\* C7: encoding a 100-character bit string returns exactly 10 words, the k-th
\* being the dictionary word whose index is the value of the k-th 10-bit chunk,
\* and decoding these words returns the bit string.
WordCodecRoundTrip ==
    /\ (codec.op = "encode" /\ Len(codec.bits) = 100) =>
          /\ codec.result.raised = NoneVal
          /\ Len(codec.result.value) = 10
          /\ \A k \in 1 .. 10 :
                /\ InDictionary(codec.result.value[k])
                /\ codec.result.value[k] = WordOf(ChunkValue(codec.bits, k))
    /\ (codec.op = "decode" /\ Len(codec.bits) = 100) =>
          /\ Len(codec.words) = 10
          /\ codec.result = Returned(codec.bits)

\* a bit string with both digits in it has been encoded and decoded back
WordCodecRoundTripWitness ==
    /\ codec.op = "decode"
    /\ Len(codec.bits) = 100
    /\ codec.bits[1] = 1
    /\ codec.bits[100] = 0
    /\ codec.result.value = codec.bits

\* the positions of the tokens of words that are no dictionary word
ForeignAt(words) == { k \in 1 .. Len(words) : ~InDictionary(words[k]) }

FirstForeign(words) ==
    CHOOSE k \in ForeignAt(words) : \A j \in ForeignAt(words) : k <= j

\* C8 as stated: a 10-word sequence with a token outside the dictionary fails
\* with an error of another kind than the error of a sequence of wrong length.
DecodeErrorKindsDiffer ==
    (/\ codec.op = "decode"
     /\ Len(codec.words) = 10
     /\ ForeignAt(codec.words) # {}) =>
        /\ codec.result.raised # NoneVal
        /\ codec.result.raised # DecodeIn(codec.module, Tail(codec.words)).raised

\* C8 as amended: decode returns no bit string in either case and raises the same
\* exception type, ValueError, in both; only the message tells them apart:
\* "Expected 10 words, got N" for a wrong length (checked first), "Unknown word: w"
\* for the first token outside the dictionary.
DecodeErrorsAreValueErrors ==
    codec.op = "decode" =>
        /\ Len(codec.words) # 10 =>
              codec.result =
                 Raised("ValueError", <<"Expected 10 words, got", Len(codec.words)>>)
        /\ (Len(codec.words) = 10 /\ ForeignAt(codec.words) # {}) =>
              codec.result =
                 Raised("ValueError",
                        <<"Unknown word:", codec.words[FirstForeign(codec.words)]>>)

\* decode has failed on ten words, the fourth of them foreign
DecodeErrorsWitness ==
    /\ codec.op = "decode"
    /\ Len(codec.words) = 10
    /\ ForeignAt(codec.words) = {4}
    /\ codec.result.raised = "ValueError"
    /\ codec.result.value = <<>>

(***************************************************************************)
(* Properties of generation and validation.                                *)
(***************************************************************************)
\* the clock-skew tolerance of the specification, in hours
toleranceHours == 1

\* invocation i of the generator has answered 200 with a code
Issued(i) == gen[i].pc = "done" /\ gen[i].response.statusCode = 200

\* the authorizationToken made of the code and signature of i's response
IssuedToken(i) == <<gen[i].response.body.code>> \o gen[i].response.body.signature

\* the authorizer is configured with the generator's signing method and key
SameSigningSetup ==
    authEnv = [USE_KMS |-> genEnv.USE_KMS, KMS_KEY_ID |-> genEnv.KMS_KEY_ID,
               HMAC_SECRET |-> genEnv.HMAC_SECRET]

\* every remote call of the authorizer invocation was answered
NoServiceFailure ==
    \A k \in 1 .. Len(auth.verdict.calls) :
        auth.verdict.calls[k] \in {"get_item:ok", "kms.verify:ok"}

\* the authorizer has just validated the pair issued by invocation i, with its
\* services answering and the generator's signing setup
ValidatedIssued(i) ==
    /\ Issued(i)
    /\ auth.done
    /\ auth.validated
    /\ auth.token = IssuedToken(i)
    /\ SameSigningSetup
    /\ NoServiceFailure

\* the generator's time to live, in seconds
TtlSeconds == genEnv.CODE_EXPIRY_MINUTES * 60

\* the validation has read the record that invocation i stored
ReadRecordOf(i) ==
    /\ auth.metadata.found
    /\ auth.metadata.item = CodeItem(gen[i].code, gen[i].signature, gen[i].expires_at,
                                     gen[i].nonce, gen[i].created_at)

\* what validate_code returns for a pair on the record and the clock this
\* validation has read, the services answering
VerdictOn(code, signature, tbl) ==
    validate_code(code, signature, authEnv, tbl, "ok", auth.current_time, "ok")

\* the time to live is a whole number of hours, as the specification's ttlHours
WholeHourTtl ==
    /\ genEnv.CODE_EXPIRY_MINUTES >= 60
    /\ genEnv.CODE_EXPIRY_MINUTES % 60 = 0

LateIsExpired ==
    \A i \in 1 .. NumGen :
        (/\ ValidatedIssued(i)
         /\ auth.started_at >=
               gen[i].timestamp + TtlSeconds + toleranceHours * 3600 + 3600) =>
            /\ ~auth.verdict.is_valid
            /\ auth.verdict.error_message = "Code has expired"

\* C2 as amended: for an authorizer that passes its configuration check (USE_KMS
\* set or an HMAC secret given), whatever its key, and whose services answer: a
\* validation of an issued pair that finds a record of the code and then reads a
\* clock value later than T + CODE_EXPIRY_MINUTES minutes is rejected with the
\* reason "Code has expired"; one that finds no record (the TTL sweep has removed
\* it) is rejected with "Invalid code", its clock unread.  Both get the Deny policy.
LateIsRejected ==
    \A i \in 1 .. NumGen :
        (/\ Issued(i)
         /\ auth.done
         /\ auth.validated
         /\ auth.token = IssuedToken(i)
         /\ NoServiceFailure
         /\ (authEnv.USE_KMS \/ Truthy(authEnv.HMAC_SECRET))
         /\ \/ ~auth.metadata.found
            \/ auth.current_time > gen[i].timestamp + TtlSeconds) =>
            /\ auth.verdict.raised = NoneVal
            /\ ~auth.verdict.is_valid
            /\ auth.out = generate_policy("user", MethodArn, "Deny")
            /\ auth.verdict.error_message =
                  IF auth.metadata.found THEN "Code has expired" ELSE "Invalid code"

\* an issued code whose record is still stored has been validated one second late
LateIsRejectedWitness ==
    \E i \in 1 .. NumGen :
        /\ ValidatedIssued(i)
        /\ auth.metadata.found
        /\ auth.current_time = gen[i].timestamp + TtlSeconds + 1
        /\ auth.verdict.error_message = "Code has expired"

\* the authorizer has just validated the code issued by invocation i with one bit
\* of its signature flipped, while the issued pair itself would have been accepted
\* on the same record and clock reading
ValidatedTampered(i) ==
    /\ Issued(i)
    /\ auth.done
    /\ auth.validated
    /\ Head(auth.token) = gen[i].code
    /\ IsFlipOf(Tail(auth.token), gen[i].signature)
    /\ NoServiceFailure
    /\ VerdictOn(gen[i].code, gen[i].signature, ItemRead(auth.metadata)).is_valid

\* C3: a valid code with a bit of its signature flipped, whichever the bit and
\* whatever its character has become, is rejected with the reason "Invalid
\* signature" at every time at which the code itself is valid, without any
\* cryptographic verification being attempted.
TamperRejected ==
    \A i \in 1 .. NumGen :
        ValidatedTampered(i) =>
            /\ auth.verdict = Verdict(FALSE, "Invalid signature", <<"get_item:ok">>)
            /\ auth.out = generate_policy("user", MethodArn, "Deny")

\* a KMS signature changed only in the bits that base64 decoding drops, which
\* KMS itself would accept, has been presented at the last second of the code's
\* life
TamperRejectedWitness ==
    \E i \in 1 .. NumGen :
        /\ ValidatedTampered(i)
        /\ auth.current_time = gen[i].expires_at
        /\ ~auth.verdict.is_valid
        /\ authEnv.USE_KMS
        /\ Tail(auth.token)[1].becomes = "slack"
        /\ verify_kms_signature(gen[i].code, Tail(auth.token), authEnv.KMS_KEY_ID, "ok")

HourOf(t) == t \div 3600
DayOf(t) == t \div 86400

\* the time to live in whole hours, as the specification's ttlHours
ttlHours == (genEnv.CODE_EXPIRY_MINUTES + 59) \div 60

\* C4 as stated: a code generated in hour g validates in every hour H with
\* H - ttlHours <= g <= H + toleranceHours.  Stated for a time to live of whole
\* hours and a stored record.
WindowCoverageByHour ==
    \A i \in 1 .. NumGen :
        (/\ ValidatedIssued(i)
         /\ ReadRecordOf(i)
         /\ genEnv.CODE_EXPIRY_MINUTES = 60 * ttlHours
         /\ HourOf(auth.current_time) - ttlHours <= HourOf(gen[i].timestamp)
         /\ HourOf(gen[i].timestamp) <= HourOf(auth.current_time) + toleranceHours) =>
            auth.verdict.is_valid

\* C4 as amended: a code generated at second g, whose stored record the validation
\* reads, validates at the validator's clock reading t exactly when
\* t <= g + CODE_EXPIRY_MINUTES * 60, however far t lies before g and whatever the
\* UTC dates of g and t.
WindowCoverageBySecond ==
    \A i \in 1 .. NumGen :
        (ValidatedIssued(i) /\ ReadRecordOf(i)) =>
            (auth.verdict.is_valid <=>
                auth.current_time <= gen[i].timestamp + TtlSeconds)

\* a code generated before UTC midnight has been accepted after it
WindowCoverageWitness ==
    \E i \in 1 .. NumGen :
        /\ ValidatedIssued(i)
        /\ DayOf(gen[i].timestamp) < DayOf(auth.current_time)
        /\ auth.verdict.is_valid

RecordsOf(tbl, code) == { it \in tbl : it.code = code }

OtherRecords(tbl, code) == { it \in tbl : it.code # code }

IsPolicy(out) == "principalId" \in DOMAIN out

\* C6: the TOKEN-mode result is an Allow policy exactly when validate_code
\* returned valid, and then its principal is the code; whenever validate_code
\* returned invalid, whatever the reason, the result is the one Deny policy with
\* the principal "user".
AuthorizationBinary ==
    auth.done =>
        LET returned == auth.validated /\ auth.verdict.raised = NoneVal
            allow == IsPolicy(auth.out)
                       /\ auth.out.policyDocument.Statement[1].Effect = "Allow"
        IN  /\ allow <=> (returned /\ auth.verdict.is_valid)
            /\ allow => auth.out = generate_policy(Head(auth.token), MethodArn, "Allow")
            /\ (returned /\ ~auth.verdict.is_valid) =>
                  auth.out = generate_policy("user", MethodArn, "Deny")

\* an issued code has been denied because it had expired
AuthorizationBinaryWitness ==
    \E i \in 1 .. NumGen :
        /\ ValidatedIssued(i)
        /\ auth.verdict.error_message = "Code has expired"
        /\ auth.out = generate_policy("user", MethodArn, "Deny")

\* C9: a validation during which the signature service failed does not return a
\* verdict: it aborts with the service's error.  Stated for an authorizer that is
\* set up with the generator's key.
OracleFailureAborts ==
    (/\ auth.done
     /\ auth.validated
     /\ SameSigningSetup
     /\ \E k \in 1 .. Len(auth.verdict.calls) :
           auth.verdict.calls[k] \in {"kms.verify:ClientError", "kms.verify:BotoCoreError"}) =>
        auth.verdict.raised # NoneVal

\* the signing call of invocation i failed
SignFailed(i) ==
    gen[i].pc = "done" /\ gen[i].signCalls = 1 /\ gen[i].signature = NoSignature

\* C10: a response carries a code and a signature only when signing and storing
\* succeeded; when the signing service fails, the response is an error without
\* code or signature ('Failed to generate code' for a ClientError, 'Internal
\* server error' for another exception), signing was called once, and the
\* invocation put no record.
GenerationAllOrNothing ==
    \A i \in 1 .. NumGen :
        gen[i].pc = "done" =>
            /\ gen[i].signCalls <= 1
            /\ gen[i].putCalls <= 1
            /\ gen[i].response.statusCode \in {200, 500}
            /\ gen[i].response.statusCode = 200 <=>
                  (gen[i].signature # NoSignature /\ gen[i].stored)
            /\ gen[i].response.statusCode = 200 =>
                  /\ gen[i].response.body.code = gen[i].code
                  /\ gen[i].response.body.signature = gen[i].signature
            /\ gen[i].response.statusCode = 500 =>
                  /\ DOMAIN gen[i].response.body = {"error"}
                  /\ ~gen[i].stored
            /\ SignFailed(i) =>
                  /\ gen[i].raised \in {"ClientError", "BotoCoreError"}
                  /\ gen[i].response =
                        create_response(500,
                           [error |-> IF gen[i].raised = "ClientError"
                                      THEN "Failed to generate code"
                                      ELSE "Internal server error"])
                  /\ gen[i].putCalls = 0
                  /\ \A it \in table : it.signature # NoSignature

\* the signing service has failed an invocation
GenerationAllOrNothingWitness ==
    \E i \in 1 .. NumGen :
        /\ SignFailed(i)
        /\ genEnv.USE_KMS
        /\ gen[i].response.statusCode = 500


(***************************************************************************)
(* Properties of the validation's calls and results.                       *)
(***************************************************************************)
\* the calls of a verdict to the signature service
OracleCalls(v) ==
    { k \in 1 .. Len(v.calls) :
        v.calls[k] \in { "kms.verify:" \o kms : kms \in ServiceAnswers } }

\* C11 as stated: the offsets are probed in ascending order from -toleranceHours
\* and the search stops at the first match, so a validation that accepts a code
\* of age a hours has made a + toleranceHours + 1 calls to the signature service.
ProbesUpToMatch ==
    \A i \in 1 .. NumGen :
        (/\ ValidatedIssued(i)
         /\ authEnv.USE_KMS
         /\ auth.current_time >= gen[i].timestamp
         /\ auth.verdict.is_valid) =>
            Cardinality(OracleCalls(auth.verdict)) =
                (auth.current_time - gen[i].timestamp) \div 3600 + toleranceHours + 1

\* C11 as amended: a validation makes no search.  It reads the record once, first,
\* and calls the signature service at most once, last, and only for a stored,
\* active, unexpired record whose signature equals the presented one; without
\* KMS configured it calls no signature service; it ends after at most 2 remote
\* calls.
SingleVerification ==
    (auth.done /\ auth.validated) =>
        LET calls == auth.verdict.calls
        IN  /\ Len(calls) <= 2
            /\ Cardinality(OracleCalls(auth.verdict)) <= 1
            /\ calls # <<>> =>
                  calls[1] \in { "get_item:" \o db : db \in ServiceAnswers }
            /\ ~(authEnv.USE_KMS /\ Truthy(authEnv.KMS_KEY_ID)) =>
                  OracleCalls(auth.verdict) = {}
            /\ OracleCalls(auth.verdict) # {} =>
                  /\ OracleCalls(auth.verdict) = {2}
                  /\ calls[1] = "get_item:ok"
                  /\ auth.metadata.found
                  /\ auth.metadata.item.state = "active"
                  /\ auth.current_time <= auth.metadata.item.expires_at
                  /\ auth.metadata.item.signature = Tail(auth.token)

\* a code at the end of its life has been accepted by KMS with a single call
SingleVerificationWitness ==
    \E i \in 1 .. NumGen :
        /\ ValidatedIssued(i)
        /\ auth.verdict.is_valid
        /\ auth.current_time = gen[i].timestamp + TtlSeconds
        /\ auth.verdict.calls = <<"get_item:ok", "kms.verify:ok">>


\* the cryptographic verification of the validated token succeeded
CryptoVerified ==
    LET code == Head(auth.token)
        signature == Tail(auth.token)
    IN  IF authEnv.USE_KMS /\ Truthy(authEnv.KMS_KEY_ID)
        THEN /\ auth.verdict.calls = <<"get_item:ok", "kms.verify:ok">>
             /\ KmsAccepts(code, b64decode(signature).value, authEnv.KMS_KEY_ID)
        ELSE /\ Truthy(authEnv.HMAC_SECRET)
             /\ verify_hmac_signature(code, signature, authEnv.HMAC_SECRET).value

\* the conditions of acceptance, for the validation just made
AcceptanceConditions ==
    /\ (authEnv.USE_KMS /\ Truthy(authEnv.KMS_KEY_ID)) \/ Truthy(authEnv.HMAC_SECRET)
    /\ auth.verdict.calls # <<>>
    /\ auth.verdict.calls[1] = "get_item:ok"
    /\ auth.metadata.found
    /\ auth.metadata.item.state = "active"
    /\ auth.current_time <= auth.metadata.item.expires_at
    /\ Tail(auth.token) = auth.metadata.item.signature
    /\ CryptoVerified

\* C12: validate_code returns (True, None) only if a signing method is
\* configured, the code's record exists, is active and unexpired, the presented
\* signature equals the stored one and the cryptographic verification succeeded;
\* if one of these fails it returns (False, reason) with a non-empty reason.
AcceptanceSound ==
    (auth.done /\ auth.validated) =>
        /\ (auth.verdict.raised = NoneVal /\ auth.verdict.is_valid) =>
              (AcceptanceConditions /\ auth.verdict.error_message = NoneVal)
        /\ ~AcceptanceConditions =>
              /\ auth.verdict.raised = NoneVal
              /\ ~auth.verdict.is_valid
              /\ Truthy(auth.verdict.error_message)


\* two reads of get_item returned the record of the same put
SamePut(m1, m2) ==
    /\ m1.found
    /\ m2.found
    /\ [m1.item EXCEPT !.state = "active"] = [m2.item EXCEPT !.state = "active"]

FailClosed ==
    auth.done =>
        /\ IsPolicy(auth.out)
        /\ ~(auth.validated /\ auth.verdict.raised = NoneVal /\ auth.verdict.is_valid) =>
              auth.out = generate_policy("user", MethodArn, "Deny")

(***************************************************************************)
(* Properties of concurrent generation.                                    *)
(***************************************************************************)
\* invocation i has answered 200 with the code of its put
Succeeded(i) == gen[i].pc = "done" /\ gen[i].stored /\ gen[i].response.statusCode = 200

\* C14 as stated: two successful responses never carry the same code.
SuccessesCarryDistinctCodes ==
    \A i, j \in 1 .. NumGen :
        (i # j /\ Succeeded(i) /\ Succeeded(j)) =>
            gen[i].response.body.code # gen[j].response.body.code

\* C14 as amended: a put succeeds only when no record of its code is stored, and
\* then adds exactly its item; a stored record is never changed, only removed by
\* the TTL cleanup after it has expired; a code has at most one record; an
\* invocation whose put is refused or fails answers 500 without a code
\* ('Failed to generate code' for a ClientError, the refusal included,
\* 'Internal server error' for another exception) and leaves the table as it
\* was; two successful responses carry the same code only when that code had
\* expired before the later put.
PutOnlyWhenAbsent ==
    [][/\ \A i \in 1 .. NumGen :
             /\ (~gen[i].stored /\ gen'[i].stored) =>
                   /\ ~HasCode(table, gen[i].code)
                   /\ table' = table \cup {CodeItem(gen[i].code, gen[i].signature,
                                                    gen[i].expires_at, gen[i].nonce,
                                                    gen[i].created_at)}
                   /\ gen'[i].response.statusCode = 200
                   /\ gen'[i].response.body.code = gen[i].code
             /\ (gen[i].pc = "put" /\ gen'[i].pc = "done" /\ ~gen'[i].stored) =>
                   /\ table' = table
                   /\ gen'[i].putCalls = 1
                   /\ gen'[i].raised \in {"ClientError", "BotoCoreError"}
                   /\ gen'[i].response =
                         create_response(500,
                            [error |-> IF gen'[i].raised = "ClientError"
                                       THEN "Failed to generate code"
                                       ELSE "Internal server error"])
             /\ (gen[i].pc = "put" /\ gen'[i].pc = "done" /\ HasCode(table, gen[i].code)) =>
                   /\ ~gen'[i].stored
                   /\ gen'[i].response.statusCode = 500
       /\ \A it \in table :
             it \in table' \/ (~HasCode(table', it.code) /\ it.ttl < now)
       /\ \A it1, it2 \in table' : it1.code = it2.code => it1 = it2
       /\ \A i, j \in 1 .. NumGen :
             (i # j /\ gen'[i].stored /\ gen'[j].stored /\ gen'[i].code = gen'[j].code) =>
                now' > gen'[i].expires_at]_vars

\* of two invocations with the same code, one has stored it and the other has
\* lost the race while the record was there
PutOnlyWhenAbsentWitness ==
    \E i, j \in 1 .. NumGen :
        /\ i # j
        /\ Succeeded(i)
        /\ gen[j].pc = "done"
        /\ gen[j].putCalls = 1
        /\ ~gen[j].stored
        /\ gen[j].code = gen[i].code
        /\ gen[j].signature # NoSignature
        /\ HasCode(table, gen[i].code)


(***************************************************************************)
(* The presign Lambda, called on its own.                                  *)
(***************************************************************************)
\* the entries of ALLOWED_CONTENT_TYPES: '*/*', '*', 'image/*', 'image/png',
\* 'application/pdf' and '' (the variable set to the empty string)
AllowEntries ==
    { <<"*", "/", "*">>, <<"*">>, <<"image", "/", "*">>, <<"image", "/", "png">>,
      <<"application", "/", "pdf">>, <<>> }

\* ALLOWED_CONTENT_TYPES.split(','): at least one entry
AllowLists == UNION { [1 .. n -> AllowEntries] : n \in 1 .. MaxAllowed }

\* content types asked about: '', 'image/png', 'image/jpeg', 'application/pdf',
\* 'image', 'imagex/png'
ContentTypes ==
    { <<>>, <<"image", "/", "png">>, <<"image", "/", "jpeg">>,
      <<"application", "/", "pdf">>, <<"image">>, <<"imagex", "/", "png">> }

PresignActions ==
    { "getPresignedUrl", "createMultipartUpload", "getSignedUrlForPart", "listParts",
      "completeMultipartUpload", "abortMultipartUpload" }

\* event['requestContext']: missing, None, without authorizer, with an
\* authorizer that is None, or with an authorizer context whose principalId is
\* missing, None, '' or a principal
RequestContexts ==
    { MissingDict(EmptyRequestContext),
      NullDict(EmptyRequestContext),
      Some([authorizer |-> MissingDict(EmptyAuthorizer)]),
      Some([authorizer |-> NullDict(EmptyAuthorizer)]) }
    \cup { Some([authorizer |-> Some([principalId |-> p])]) :
             p \in { Missing, Some(NoneVal), Some(""), Some("p1") } }

PresignBodies ==
    [action : {Missing} \cup { Some(a) : a \in PresignActions \cup {"deleteObject"} },
     key : { <<>>, <<"k">> },
     contentType : { <<>>, <<"image", "/", "png">>, <<"application", "/", "pdf">> },
     uploadId : { NoneVal, "u1" },
     partNumber : { 0, 1 },
     parts : { <<>>, <<"part1">> }]

PresignEvents == [requestContext : RequestContexts, body : PresignBodies]

\* what sts_client.assume_role may answer
StsAnswers == ServiceAnswers \cup {"NoCredentials"}

ValidateContentType ==
    /\ presign.op = "none"
    /\ \E content_type \in ContentTypes :
          presign' = [presign EXCEPT
                        !.op = "validate_content_type",
                        !.content_type = content_type,
                        !.valid = validate_content_type(presign.allowed, content_type)]
    /\ UNCHANGED <<other, genEnv, authEnv, now, table, gen, auth, codec>>

PresignInvoke ==
    /\ presign.op = "none"
    /\ \E event \in PresignEvents, sts \in StsAnswers, s3 \in ServiceAnswers :
          presign' = [presign EXCEPT
                        !.op = "lambda_handler",
                        !.event = event,
                        !.out = presign_handler(event, presign.allowed, sts, s3)]
    /\ UNCHANGED <<other, genEnv, authEnv, now, table, gen, auth, codec>>

\* the caller takes the result; the configuration stays
PresignReturn ==
    /\ presign.op # "none"
    /\ presign' = [NoPresign EXCEPT !.allowed = presign.allowed]
    /\ UNCHANGED <<other, genEnv, authEnv, now, table, gen, auth, codec>>

InitPresign ==
    /\ genEnv \in { e \in GenEnvs : e.HMAC_SECRET = "s1" /\ e.CODE_EXPIRY_MINUTES = 60 }
    /\ authEnv \in { e \in AuthConfigs : e.HMAC_SECRET = "s1" }
    /\ now = StartTime
    /\ table = {}
    /\ gen = [i \in 1 .. NumGen |-> GenIdle]
    /\ auth = NoAuth
    /\ other = NoOther
    /\ codec = NoCodec
    /\ \E allowed \in AllowLists : presign = [NoPresign EXCEPT !.allowed = allowed]

NextPresign == ValidateContentType \/ PresignInvoke \/ PresignReturn

SpecPresign == InitPresign /\ [][NextPresign]_vars


(***************************************************************************)
(* Properties of the presign Lambda.                                       *)
(***************************************************************************)
\* the allow-list admits the content type, as the rule is stated: an entry '*/*'
\* or '*', or an entry 'base/*' with the content type starting with 'base/', or
\* the content type itself
AdmittedByRule(allowed_types, content_type) ==
    \E k \in 1 .. Len(allowed_types) :
        LET allowed == allowed_types[k]
        IN  \/ allowed = <<"*", "/", "*">>
            \/ allowed = <<"*">>
            \/ /\ EndsWithSlashStar(allowed)
               /\ StartsWith(content_type, BeforeSlash(allowed) \o <<"/">>)
            \/ allowed = content_type

\* C16: validate_content_type returns True exactly when the allow-list admits the
\* content type by the rule; with only typed wildcards such as 'image/*' in the
\* list, a content type of another base type and an empty one are rejected.
ContentTypeAllowList ==
    presign.op = "validate_content_type" =>
        (presign.valid <=> AdmittedByRule(presign.allowed, presign.content_type))


\* the event's authorizer context names a principal
HasPrincipal(event) ==
    /\ event.requestContext.present
    /\ ~event.requestContext.null
    /\ event.requestContext.value.authorizer.present
    /\ ~event.requestContext.value.authorizer.null
    /\ event.requestContext.value.authorizer.value.principalId.present
    /\ event.requestContext.value.authorizer.value.principalId.value \notin {NoneVal, ""}

\* the action of the event's body, 'getPresignedUrl' when it names none
ActionOf(event) ==
    IF event.body.action.present THEN event.body.action.value ELSE "getPresignedUrl"

\* the body holds the parameters its action requires
HasRequiredParams(event) ==
    LET body == event.body
        action == ActionOf(event)
    IN  /\ action \in {"getPresignedUrl", "createMultipartUpload"} => body.contentType # <<>>
        /\ action = "getSignedUrlForPart" => (body.uploadId = "u1" /\ body.partNumber # 0)
        /\ action \in {"listParts", "abortMultipartUpload"} => body.uploadId = "u1"
        /\ action = "completeMultipartUpload" => (body.uploadId = "u1" /\ body.parts # <<>>)

\* the S3 operation of an action
S3OperationOf(action) ==
    CASE action = "getPresignedUrl" -> "s3.generate_presigned_url:put_object"
      [] action = "createMultipartUpload" -> "s3.create_multipart_upload"
      [] action = "getSignedUrlForPart" -> "s3.generate_presigned_url:upload_part"
      [] action = "listParts" -> "s3.list_parts"
      [] action = "completeMultipartUpload" -> "s3.complete_multipart_upload"
      [] action = "abortMultipartUpload" -> "s3.abort_multipart_upload"
      [] OTHER -> "none"

\* C17: for an event whose authorizer context names no principal the handler
\* answers 401 and calls neither STS nor S3; whenever it calls STS or S3, the
\* event names a principal, the action is a known one and its required
\* parameters are there, and the only S3 operation is the action's, after
\* AssumeRole.
NoUploadWithoutPrincipal ==
    presign.op = "lambda_handler" =>
        LET event == presign.event
            calls == presign.out.calls
        IN  /\ ~HasPrincipal(event) =>
                  /\ presign.out.statusCode = 401
                  /\ calls = <<>>
            /\ presign.out.statusCode = 401 => ~HasPrincipal(event)
            /\ calls # <<>> =>
                  /\ HasPrincipal(event)
                  /\ ActionOf(event) \in PresignActions
                  /\ HasRequiredParams(event)
                  /\ Len(calls) <= 2
                  /\ calls[1].api = "sts.assume_role"
                  /\ \A k \in 2 .. Len(calls) :
                        calls[k].api = S3OperationOf(ActionOf(event))
            /\ presign.out.statusCode = 200 => Len(calls) = 2

==========================================================================
